---- MODULE Spec2Model ----
(***************************************************************************)
(* A model of rocker, a minimal container runtime.                         *)
(*                                                                         *)
(* Every `rocker run` invocation is a separate operating-system process    *)
(* executing main -> run_container.  The processes share the sled store,   *)
(* the file system under /var/lib/rocker and /var/run/rocker, and the      *)
(* kernel's network state.  Each store operation and each system call is   *)
(* one atomic step; the steps of different invocations interleave freely.  *)
(* The store is the ordered map of the specification: single-key get,      *)
(* insert and remove are atomic and nothing else is.                       *)
(***************************************************************************)
EXTENDS Integers, Sequences, FiniteSets, TLC

\* ------------------------------------------------------------------ bounds
\* number of rocker processes in a behaviour; each is invoked once
NumProcs == 2
\* each half (3 random bytes) of a container id ranges over 0..MaxHalf
MaxHalf == 1
\* each random octet of a container address ranges over 0..MaxOctet
MaxOctet == 1
\* number of distinct images (manifests) the registry serves
NumImages == 1
\* number of layers in every manifest
NumLayers == 2
\* greatest length of the image names given to parse_image_name
MaxNameLen == 4

Procs == 1..NumProcs
Halves == 0..MaxHalf
Octets == 0..MaxOctet
Images == 1..NumImages
Layers == 1..NumLayers

\* ---------------------------------------------------------------- helpers
\* a container id is the hex encoding of 6 random bytes: 12 characters,
\* modelled as the pair of its two 6-character halves
Ids == Halves \X Halves
NoId == <<0 - 1, 0 - 1>>
\* &container_id[0..6]
Id6(id) == id[1]

\* an address 172.28.a.b is the pair of its two random octets
NoIp == <<0 - 1, 0 - 1>>
\* "172.28.190.151".parse()
FirstCandidate == <<190, 151>>
\* format!("172.28.{}.{}", rand_nums[0], rand_nums[1]): the octets drawn are
\* those of Octets, or those of the first candidate again
RandomAddrs == (Octets \X Octets) \cup {FirstCandidate}
\* ROCKER_BRIDGE_ADDRESS "172.28.0.1"
BridgeAddr == <<0, 1>>
\* ROCKER_NETWORK_ADDRESS "172.28.0.0/16": the network address and the
\* broadcast address of the /16
NetworkAddr == <<0, 0>>
BroadcastAddr == <<255, 255>>
\* new_addr.to_string(): the dotted quad, used as a store key and stored as
\* the value of the veth mapping
IpToString(ip) == <<172, 28, ip[1], ip[2]>>
NoString == <<>>
\* the literal key "abc"
AbcKey == <<"abc">>

\* the store: one map per key prefix (db.rs)
Get(m, k) == IF k \in DOMAIN m THEN <<m[k]>> ELSE <<>>
Insert(m, k, v) == [x \in DOMAIN m \cup {k} |-> IF x = k THEN v ELSE m[x]]
Remove(m, k) == [x \in DOMAIN m \ {k} |-> m[x]]
EmptyMap == [x \in {} |-> 0]

\* config().digest[7..=18] of the manifest the registry serves for an image
ImageHash(img) == img

\* mount_container_fs mounts in this order; umount_container_fs unmounts in
\* the other one
MountOrder == <<"proc", "tmp", "dev", "devpts", "sys">>
UmountOrder == <<"devpts", "dev", "sys", "proc", "tmp">>
Prefix(seq, k) == {seq[i] : i \in 1..k}

\* The store handles a process holds: a local `let db = sled::open(..)`,
\* dropped where its scope ends, and the static DB that setup_veths locks,
\* opened where it is first locked and not dropped while the process lives.
LocalDb == "db"
DB == "DB"

\* ------------------------------------------------------------------ state
VARIABLES
    db,             \* the sled store, a record of maps, one per key prefix
    tmpFiles,       \* <tmp>/<hash> directories and the <layer>.tar.gz in them,
                    \* each "full" (the blob) or "empty"
    imgLayers,      \* <images>/<hash> directories and the state of each layer
    containerDirs,  \* the directories <containers>/<id>
    overlay,        \* number of overlay mounts stacked on <containers>/<id>/fs/mnt
    innerMounts,    \* the mounts under <containers>/<id>/fs/mnt
    netns,          \* the files /run/netns/ns-<id>
    veths,          \* the veth pairs, by id6: where the ns side is, its address
    scopes,         \* the systemd scopes rocker-<id>.scope
    pc,             \* where each run process is
    loc,            \* the local variables of each run process
    child,          \* the cloned container child of each run process
    bridge,         \* the link rocker0: whether it exists, is up, its addresses
    call            \* the last call of a pure function: its argument and result

vars == <<db, tmpFiles, imgLayers, containerDirs, overlay, innerMounts, netns,
          veths, scopes, pc, loc, child, bridge, call>>

imageFs == <<tmpFiles, imgLayers>>
containerFs == <<containerDirs, overlay, innerMounts>>
network == <<netns, veths>>

\* no link rocker0 / rocker0 as setup_network_bridge leaves it
NoBridge == [exists |-> FALSE, up |-> FALSE, addrs |-> {}]
BridgeUp == [exists |-> TRUE, up |-> TRUE, addrs |-> {BridgeAddr}]

NoCall == [fn |-> "none"]

InitLoc ==
    [container_id |-> NoId, image |-> 0, ip_addr |-> NoIp, ip_str |-> NoString,
     fetched |-> {},
     layer_i |-> 1, cachedAtEntry |-> FALSE, netIO |-> {}, child_failed |-> FALSE,
     attempted |-> {}, pid |-> 0, order |-> <<>>, cgroup_pid |-> 0,
     viaMain |-> FALSE, setup |-> "none", afterOk |-> FALSE,
     exec_id |-> NoId, container_pid |-> 0, forked |-> 0, joined |-> FALSE,
     middle |-> "none", grandchild |-> "none",
     handles |-> {}, child_handles |-> {},
     result |-> "none", errAt |-> "none"]

\* a host on which rocker has not run yet
EmptyHost ==
    /\ db = [downloaded_images |-> EmptyMap, container_commands |-> EmptyMap,
             container_image_hashes |-> EmptyMap, container_pids |-> EmptyMap,
             used_ip_addresses |-> EmptyMap, veth_ip_addresses |-> EmptyMap]
    /\ tmpFiles = EmptyMap
    /\ imgLayers = EmptyMap
    /\ containerDirs = {}
    /\ overlay = [id \in Ids |-> 0]
    /\ innerMounts = [id \in Ids |-> {}]
    /\ netns = {}
    /\ veths = EmptyMap
    /\ scopes = {}
    /\ pc = [p \in Procs |-> "idle"]
    /\ loc = [p \in Procs |-> InitLoc]
    /\ child = [p \in Procs |-> "none"]
    /\ bridge = NoBridge

Init ==
    /\ EmptyHost
    /\ call = NoCall

\* ------------------------------------------------- how a run process ends
\* `?` on an Err: run_container returns the error, main exits non-zero
ReturnErr(p, at) ==
    /\ pc' = [pc EXCEPT ![p] = "done"]
    /\ loc' = [loc EXCEPT ![p].result = "err", ![p].errAt = at]

\* .unwrap() on an Err: the process panics where it stands
Panic(p, at) ==
    /\ pc' = [pc EXCEPT ![p] = "done"]
    /\ loc' = [loc EXCEPT ![p].result = "panic", ![p].errAt = at]

Goto(p, label) == pc' = [pc EXCEPT ![p] = label]

\* ----------------------------------------------------------------- main
\* main, SubCommand::Run: a `rocker run <image> <command>` process starts
\* and calls run_container
StartRun(p) ==
    /\ pc[p] = "idle"
    /\ \E img \in Images : loc' = [loc EXCEPT ![p].image = img]
    /\ Goto(p, "create_container_id")
    /\ UNCHANGED <<db, imageFs, containerFs, network, scopes, child, bridge, call>>

\* --------------------------------------------------- the bridge rocker0
\* main, SubCommand::Run, from the start: the process is about to ask
\* whether the bridge is up
StartMain(p) ==
    /\ pc[p] = "idle"
    /\ \E img \in Images : loc' = [loc EXCEPT ![p].image = img, ![p].viaMain = TRUE]
    /\ Goto(p, "is_network_bridge_up")
    /\ UNCHANGED <<db, imageFs, containerFs, network, scopes, child, bridge, call>>

\* history: some call of setup_network_bridge has returned Ok
SomeSetupReturnedOk == \E q \in Procs : loc[q].setup = "ok"

\* is_network_bridge_up: true when a link named rocker0 has IFF_UP;
\* if !is_up { setup_network_bridge().await? }, then run_container
is_network_bridge_up(p) ==
    /\ pc[p] = "is_network_bridge_up"
    /\ IF bridge.exists /\ bridge.up
       THEN /\ Goto(p, "create_container_id")
            /\ UNCHANGED loc
       ELSE /\ Goto(p, "setup_network_bridge")
            /\ loc' = [loc EXCEPT ![p].setup = "entered",
                                  ![p].afterOk = SomeSetupReturnedOk]
    /\ UNCHANGED <<db, imageFs, containerFs, network, scopes, child, bridge, call>>

\* setup_network_bridge is entered, taken on its own
call_setup_network_bridge(p) ==
    /\ pc[p] = "idle"
    /\ loc' = [loc EXCEPT ![p].setup = "entered", ![p].afterOk = SomeSetupReturnedOk]
    /\ Goto(p, "setup_network_bridge")
    /\ UNCHANGED <<db, imageFs, containerFs, network, scopes, child, bridge, call>>

\* setup_network_bridge returns Ok: main goes on to run_container
SetupOk(p) ==
    /\ pc' = [pc EXCEPT ![p] = IF loc[p].viaMain THEN "create_container_id" ELSE "done"]
    /\ loc' = [loc EXCEPT ![p].setup = "ok",
                          ![p].result = IF loc[p].viaMain THEN @ ELSE "ok"]

\* setup_network_bridge returns Err, and main returns it
SetupErr(p, at) ==
    /\ pc' = [pc EXCEPT ![p] = "done"]
    /\ loc' = [loc EXCEPT ![p].setup = "err", ![p].result = "err", ![p].errAt = at]

NoLinkFound(b) == FALSE

\* links.try_next().await? is Some: a link named rocker0 exists
LinkFound(b) == b.exists

\* the first link().get() with the name filter, and its if let
bridge_get_link(p) ==
    /\ pc[p] = "setup_network_bridge"
    /\ IF LinkFound(bridge)
       THEN Goto(p, "bridge_set_link_up")
       ELSE Goto(p, "bridge_link_add")
    /\ UNCHANGED <<db, imageFs, containerFs, network, scopes, loc, child, bridge, call>>

\* set_link_up(&handle, "rocker0").await?; return Ok(()): on either path.
\* set_link_up looks the link up by name and fails when there is none
bridge_set_link_up(p) ==
    /\ pc[p] = "bridge_set_link_up"
    /\ IF bridge.exists
       THEN /\ bridge' = [bridge EXCEPT !.up = TRUE]
            /\ SetupOk(p)
       ELSE /\ SetupErr(p, "Link not found")
            /\ UNCHANGED bridge
    /\ UNCHANGED <<db, imageFs, containerFs, network, scopes, child, call>>

\* handle.link().add().bridge("rocker0").execute().await?: the request is
\* made with NLM_F_CREATE | NLM_F_EXCL, so it is refused when a link of that
\* name exists; the new link is down and has no address
bridge_link_add(p) ==
    /\ pc[p] = "bridge_link_add"
    /\ IF bridge.exists
       THEN /\ SetupErr(p, "link add bridge")
            /\ UNCHANGED bridge
       ELSE /\ bridge' = [exists |-> TRUE, up |-> FALSE, addrs |-> {}]
            /\ Goto(p, "bridge_get_link_again")
            /\ UNCHANGED loc
    /\ UNCHANGED <<db, imageFs, containerFs, network, scopes, child, call>>

\* the second link().get(), and Err("Failed to create bridge.") when it
\* finds nothing
bridge_get_link_again(p) ==
    /\ pc[p] = "bridge_get_link_again"
    /\ IF bridge.exists
       THEN /\ Goto(p, "bridge_address_add")
            /\ UNCHANGED loc
       ELSE SetupErr(p, "Failed to create bridge.")
    /\ UNCHANGED <<db, imageFs, containerFs, network, scopes, child, bridge, call>>

\* handle.address().add(index, 172.28.0.1, 16).execute().await?: refused
\* when the link has this address already
bridge_address_add(p) ==
    /\ pc[p] = "bridge_address_add"
    /\ IF BridgeAddr \in bridge.addrs
       THEN /\ SetupErr(p, "address add")
            /\ UNCHANGED bridge
       ELSE /\ bridge' = [bridge EXCEPT !.addrs = @ \cup {BridgeAddr}]
            /\ Goto(p, "bridge_set_link_up")
            /\ UNCHANGED loc
    /\ UNCHANGED <<db, imageFs, containerFs, network, scopes, child, call>>

setup_network_bridge(p) ==
    \/ bridge_get_link(p)
    \/ bridge_link_add(p)
    \/ bridge_get_link_again(p)
    \/ bridge_address_add(p)
    \/ bridge_set_link_up(p)

\* ---------------------------------------------------- create_container_id
\* the loop's test: db.get(container_image_hashes_key(&container_id)) is None
IdIsFree(store, id) == Get(store.container_image_hashes, id) = <<>>

\* history: downloaded_images/<hash> is there when download_image_if_needed
\* is entered
Cached(store, img) == ImageHash(img) \in DOMAIN store.downloaded_images

\* The loop draws ids until one passes the test; only the last draw has an
\* effect, so the loop is one step that picks any id passing the test.  The
\* call of download_image_if_needed follows, which is entered here.
create_container_id(p) ==
    /\ pc[p] = "create_container_id"
    /\ \E id \in Ids :
        /\ IdIsFree(db, id)
        /\ loc' = [loc EXCEPT ![p].container_id = id,
                              ![p].cachedAtEntry = Cached(db, loc[p].image)]
    /\ Goto(p, "get_manifest")
    /\ UNCHANGED <<db, imageFs, containerFs, network, scopes, child, bridge, call>>

\* ----------------------------------------------- download_image_if_needed
\* download_image_if_needed is entered, taken on its own
call_download_image_if_needed(p) ==
    /\ pc[p] = "idle"
    /\ \E img \in Images :
         loc' = [loc EXCEPT ![p].image = img, ![p].cachedAtEntry = Cached(db, img)]
    /\ Goto(p, "get_manifest")
    /\ UNCHANGED <<db, imageFs, containerFs, network, scopes, child, bridge, call>>

\* client.authenticate(..).await? and dclient.get_manifest(..).await: both
\* talk to the registry, and either may fail
get_manifest(p) ==
    /\ pc[p] = "get_manifest"
    /\ \/ /\ loc' = [loc EXCEPT ![p].netIO = @ \cup {"auth", "manifest"}]
          /\ Goto(p, "is_image_already_downloaded")
       \/ /\ pc' = [pc EXCEPT ![p] = "done"]
          /\ loc' = [loc EXCEPT ![p].netIO = @ \cup {"auth"},
                                ![p].result = "err", ![p].errAt = "authenticate"]
       \/ /\ pc' = [pc EXCEPT ![p] = "done"]
          /\ loc' = [loc EXCEPT ![p].netIO = @ \cup {"auth", "manifest"},
                                ![p].result = "err", ![p].errAt = "get_manifest"]
    /\ UNCHANGED <<db, imageFs, containerFs, network, scopes, child, bridge, call>>

AlwaysMissing(image_hash_table, image_hash) == FALSE

is_image_already_downloaded(image_hash_table, image_hash) ==
    Get(image_hash_table, image_hash) # <<>>

\* let db = sled::open(..)?;
\* if (!is_image_already_downloaded(&db, &image_hash)?) { .. } else { .. }:
\* db lives until download_image_if_needed returns
check_image(p) ==
    /\ pc[p] = "is_image_already_downloaded"
    /\ IF is_image_already_downloaded(db.downloaded_images, ImageHash(loc[p].image))
       THEN /\ Goto(p, "create_container_directories")
            /\ UNCHANGED loc
       ELSE /\ Goto(p, "download_layers_blob")
            /\ loc' = [loc EXCEPT ![p].handles = @ \cup {LocalDb}]
    /\ UNCHANGED <<db, imageFs, containerFs, network, scopes, child, bridge, call>>

\* fs::create_dir_all(&image_layers_tar_path); the result is dropped
create_tmp_dir(p) ==
    LET h == ImageHash(loc[p].image) IN
    /\ pc[p] = "download_layers_blob"
    /\ tmpFiles' = IF h \in DOMAIN tmpFiles THEN tmpFiles ELSE Insert(tmpFiles, h, EmptyMap)
    /\ Goto(p, "pull")
    /\ UNCHANGED <<db, imgLayers, containerFs, network, scopes, loc, child, bridge, call>>

\* one pull task: get_blob, File::create, write.  The tasks are futures
\* that join_all polls in this process, in any order.  file.unwrap() panics
\* when <tmp>/<hash> is not there, then blob.unwrap() when the fetch failed:
\* the file is created, and left empty, before that.
pull_layer(p) ==
    LET h == ImageHash(loc[p].image) IN
    /\ pc[p] = "pull"
    /\ \E l \in Layers \ loc[p].fetched :
        \/ /\ h \in DOMAIN tmpFiles
           /\ tmpFiles' = [tmpFiles EXCEPT ![h] = Insert(@, l, "full")]
           /\ loc' = [loc EXCEPT ![p].fetched = @ \cup {l}, ![p].netIO = @ \cup {"blob"}]
           /\ pc' = pc
        \/ /\ h \notin DOMAIN tmpFiles
           /\ pc' = [pc EXCEPT ![p] = "done"]
           /\ loc' = [loc EXCEPT ![p].netIO = @ \cup {"blob"},
                                 ![p].result = "panic", ![p].errAt = "File::create"]
           /\ UNCHANGED tmpFiles
        \/ /\ h \in DOMAIN tmpFiles
           /\ tmpFiles' = [tmpFiles EXCEPT ![h] = Insert(@, l, "empty")]
           /\ pc' = [pc EXCEPT ![p] = "done"]
           /\ loc' = [loc EXCEPT ![p].netIO = @ \cup {"blob"},
                                 ![p].result = "panic", ![p].errAt = "get_blob"]
    /\ UNCHANGED <<db, imgLayers, containerFs, network, scopes, child, bridge, call>>

join_all_first_done(p) ==
    /\ pc[p] = "pull"
    /\ loc[p].fetched # {}
    /\ Goto(p, "extract_layers")
    /\ UNCHANGED <<db, imageFs, containerFs, network, scopes, loc, child, bridge, call>>

\* join_all(pull_tasks).await returns once every task has finished
join_all(p) ==
    /\ pc[p] = "pull"
    /\ loc[p].fetched = Layers
    /\ Goto(p, "extract_layers")
    /\ UNCHANGED <<db, imageFs, containerFs, network, scopes, loc, child, bridge, call>>

\* archive.unpack(dst_path); the Result is dropped, so the loop goes on
\* whatever it was
UnpackLetsLoopContinue(ok) == TRUE

\* one iteration of the loop of extract_layers, in manifest order:
\* File::open(..)? returns the error; unpacking gunzips and untars into
\* <images>/<hash>/<layer>/fs and may fail
extract_layer(p) ==
    LET h == ImageHash(loc[p].image)
        l == loc[p].layer_i
        old == IF h \in DOMAIN imgLayers THEN imgLayers[h] ELSE EmptyMap
    IN
    /\ pc[p] = "extract_layers"
    /\ l <= NumLayers
    /\ IF h \in DOMAIN tmpFiles /\ l \in DOMAIN tmpFiles[h]
       THEN \E ok \in IF tmpFiles[h][l] = "full" THEN BOOLEAN ELSE {FALSE} :
              /\ imgLayers' = Insert(imgLayers, h,
                                     Insert(old, l, IF ok THEN "ok" ELSE "partial"))
              /\ IF UnpackLetsLoopContinue(ok)
                 THEN /\ loc' = [loc EXCEPT ![p].layer_i = l + 1]
                      /\ pc' = pc
                 ELSE ReturnErr(p, "unpack")
       ELSE /\ ReturnErr(p, "File::open")
            /\ UNCHANGED imgLayers
    /\ UNCHANGED <<db, tmpFiles, containerFs, network, scopes, child, bridge, call>>

\* delete_temp_image_files: fs::remove_dir_all(path)?
delete_temp_image_files(p) ==
    LET h == ImageHash(loc[p].image) IN
    /\ pc[p] = "extract_layers"
    /\ loc[p].layer_i > NumLayers
    /\ IF h \in DOMAIN tmpFiles
       THEN /\ tmpFiles' = Remove(tmpFiles, h)
            /\ Goto(p, "insert_image")
            /\ UNCHANGED loc
       ELSE /\ ReturnErr(p, "delete_temp_image_files")
            /\ UNCHANGED tmpFiles
    /\ UNCHANGED <<db, imgLayers, containerFs, network, scopes, child, bridge, call>>

\* db.insert(image_hash_key(&image_hash), "<name>:<tag>")
insert_image(p) ==
    LET h == ImageHash(loc[p].image) IN
    /\ pc[p] = "insert_image"
    /\ db' = [db EXCEPT !.downloaded_images = Insert(@, h, loc[p].image)]
    /\ loc' = [loc EXCEPT ![p].handles = @ \ {LocalDb}]
    /\ Goto(p, "create_container_directories")
    /\ UNCHANGED <<imageFs, containerFs, network, scopes, child, bridge, call>>

\* download_image_if_needed up to the test, and its return when the image
\* is there
LookUpImage(p) ==
    \/ get_manifest(p)
    \/ check_image(p)

\* download_image and the insert that follows it
DownloadImage(p) ==
    \/ create_tmp_dir(p)
    \/ pull_layer(p)
    \/ join_all(p)
    \/ extract_layer(p)
    \/ delete_temp_image_files(p)
    \/ insert_image(p)

\* ------------------------------------------------ run_container: set-up
\* create_container_directories: fs::create_dir_all of fs, fs/mnt,
\* fs/upperdir and fs/workdir under <containers>/<id>
create_container_directories(p) ==
    /\ pc[p] = "create_container_directories"
    /\ containerDirs' = containerDirs \cup {loc[p].container_id}
    /\ Goto(p, "mount_overlay_fs")
    /\ UNCHANGED <<db, imageFs, overlay, innerMounts, network, scopes, loc, child, bridge, call>>

mount_overlay_fs_then_clone(p) ==
    LET id == loc[p].container_id
        h == ImageHash(loc[p].image)
    IN
    /\ pc[p] = "mount_overlay_fs"
    /\ \/ /\ id \in containerDirs
          /\ h \in DOMAIN imgLayers
          /\ DOMAIN imgLayers[h] = Layers
          /\ overlay' = [overlay EXCEPT ![id] = @ + 1]
          /\ Goto(p, "clone")
          /\ UNCHANGED loc
       \/ /\ ReturnErr(p, "mount_overlay_fs")
          /\ UNCHANGED overlay
    /\ UNCHANGED <<db, imageFs, containerDirs, innerMounts, network, scopes, child, bridge, call>>

\* mount_overlay_fs: mount(2) of the overlay on fs/mnt; it needs the mount
\* point and every lower directory, and the kernel may refuse it
mount_overlay_fs(p) ==
    LET id == loc[p].container_id
        h == ImageHash(loc[p].image)
    IN
    /\ pc[p] = "mount_overlay_fs"
    /\ \/ /\ id \in containerDirs
          /\ h \in DOMAIN imgLayers
          /\ DOMAIN imgLayers[h] = Layers
          /\ overlay' = [overlay EXCEPT ![id] = @ + 1]
          /\ Goto(p, "setup_netns")
          /\ UNCHANGED loc
       \/ /\ ReturnErr(p, "mount_overlay_fs")
          /\ UNCHANGED overlay
    /\ UNCHANGED <<db, imageFs, containerDirs, innerMounts, network, scopes, child, bridge, call>>

\* setup_netns: NetworkNamespace::add("ns-<id>") creates /run/netns/ns-<id>
\* exclusively
setup_netns(p) ==
    LET id == loc[p].container_id IN
    /\ pc[p] = "setup_netns"
    /\ IF id \in netns
       THEN /\ ReturnErr(p, "setup_netns")
            /\ UNCHANGED netns
       ELSE /\ netns' = netns \cup {id}
            /\ Goto(p, "setup_veths")
            /\ UNCHANGED loc
    /\ UNCHANGED <<db, imageFs, containerFs, veths, scopes, child, bridge, call>>

add_veth_pair_replacing(p) ==
    LET id6 == Id6(loc[p].container_id) IN
    /\ pc[p] = "setup_veths"
    /\ veths' = Insert(veths, id6, [ns |-> NoId, addr |-> NoIp])
    /\ Goto(p, "add_veth_to_netns")
    /\ UNCHANGED loc
    /\ UNCHANGED <<db, imageFs, containerFs, netns, scopes, child, bridge, call>>

\* setup_veths, first part: add the pair br-veth-<id6> / ns-veth-<id6>
\* (refused when a link of that name exists), set the bridge side up and
\* give it its master
add_veth_pair(p) ==
    LET id6 == Id6(loc[p].container_id) IN
    /\ pc[p] = "setup_veths"
    /\ IF id6 \in DOMAIN veths
       THEN /\ ReturnErr(p, "link add veth")
            /\ UNCHANGED veths
       ELSE /\ veths' = Insert(veths, id6, [ns |-> NoId, addr |-> NoIp])
            /\ Goto(p, "add_veth_to_netns")
            /\ UNCHANGED loc
    /\ UNCHANGED <<db, imageFs, containerFs, netns, scopes, child, bridge, call>>

\* add_veth_to_netns: open /run/netns/ns-<id> and move the container side
\* into it; let db = DB.lock().unwrap() opens the static handle;
\* let ip_addr = create_ip_address(..) starts with its fixed candidate
add_veth_to_netns(p) ==
    LET id == loc[p].container_id
        id6 == Id6(id)
    IN
    /\ pc[p] = "add_veth_to_netns"
    /\ IF id6 \in DOMAIN veths /\ id \in netns
       THEN /\ veths' = [veths EXCEPT ![id6].ns = id]
            /\ loc' = [loc EXCEPT ![p].ip_addr = FirstCandidate,
                                  ![p].handles = @ \cup {DB}]
            /\ Goto(p, "create_ip_address")
       ELSE /\ ReturnErr(p, "add_veth_to_netns")
            /\ UNCHANGED veths
    /\ UNCHANGED <<db, imageFs, containerFs, netns, scopes, child, bridge, call>>

NeverInUse(store, addr) == FALSE

\* the loop's test in create_ip_address:
\* db.get(used_ip_address_key(&new_addr.to_string())) is Some
IpInUse(store, addr) == Get(store.used_ip_addresses, IpToString(addr)) # <<>>

\* create_ip_address is entered, taken on its own: new_addr is the fixed
\* first candidate
call_create_ip_address(p) ==
    /\ pc[p] = "idle"
    /\ loc' = [loc EXCEPT ![p].ip_addr = FirstCandidate]
    /\ Goto(p, "create_ip_address")
    /\ UNCHANGED <<db, imageFs, containerFs, network, scopes, child, bridge, call>>

check_ip_address_giving_up(p) ==
    /\ pc[p] = "create_ip_address"
    /\ IF IpInUse(db, loc[p].ip_addr)
       THEN \/ /\ \E a \in RandomAddrs : loc' = [loc EXCEPT ![p].ip_addr = a]
               /\ pc' = pc
            \/ ReturnErr(p, "create_ip_address")
       ELSE /\ Goto(p, "insert_ip_address")
            /\ UNCHANGED loc
    /\ UNCHANGED <<db, imageFs, containerFs, network, scopes, child, bridge, call>>

\* one iteration of the loop of create_ip_address up to the match: a used
\* candidate is replaced by a random one, an unused one is taken
check_ip_address(p) ==
    /\ pc[p] = "create_ip_address"
    /\ IF IpInUse(db, loc[p].ip_addr)
       THEN /\ \E a \in RandomAddrs : loc' = [loc EXCEPT ![p].ip_addr = a]
            /\ pc' = pc
       ELSE /\ Goto(p, "insert_ip_address")
            /\ UNCHANGED loc
    /\ UNCHANGED <<db, imageFs, containerFs, network, scopes, child, bridge, call>>

insert_ip_address_if_absent(p) ==
    /\ pc[p] = "insert_ip_address"
    /\ IF IpInUse(db, loc[p].ip_addr)
       THEN /\ Goto(p, "create_ip_address")
            /\ UNCHANGED db
       ELSE /\ db' = [db EXCEPT !.used_ip_addresses =
                        Insert(Insert(@, IpToString(loc[p].ip_addr), "1"), AbcKey, "1")]
            /\ Goto(p, "run_in_network_namespace")
    /\ UNCHANGED <<imageFs, containerFs, network, scopes, loc, child, bridge, call>>

\* the None arm: db.insert(used_ip_address_key(addr), "1") and
\* db.insert(used_ip_address_key("abc"), "1"); the address is returned
insert_ip_address(p) ==
    /\ pc[p] = "insert_ip_address"
    /\ db' = [db EXCEPT !.used_ip_addresses =
                 Insert(Insert(@, IpToString(loc[p].ip_addr), "1"), AbcKey, "1")]
    /\ Goto(p, "run_in_network_namespace")
    /\ UNCHANGED <<imageFs, containerFs, network, scopes, loc, child, bridge, call>>

\* run_in_network_namespace(.., blocking): fork_fn forks a helper and waits
\* for it without looking at its status.  The helper enters ns-<id> and
\* gives ns-veth-<id6> the address; every failure in it is a panic of the
\* helper alone.  A failed fork panics the run process.
run_in_network_namespace(p) ==
    LET id == loc[p].container_id
        id6 == Id6(id)
    IN
    /\ pc[p] = "run_in_network_namespace"
    /\ \/ /\ id \in netns
          /\ id6 \in DOMAIN veths
          /\ veths[id6].ns = id
          /\ veths' = [veths EXCEPT ![id6].addr = loc[p].ip_addr]
          /\ Goto(p, "insert_veth_ip_address")
          /\ UNCHANGED loc
       \/ /\ Goto(p, "insert_veth_ip_address")
          /\ UNCHANGED <<veths, loc>>
       \/ /\ Panic(p, "fork")
          /\ UNCHANGED veths
    /\ UNCHANGED <<db, imageFs, containerFs, netns, scopes, child, bridge, call>>

\* db.insert(veth_ip_address_key("ns-veth-<id6>"), ip_addr.to_string())
insert_veth_ip_address(p) ==
    /\ pc[p] = "insert_veth_ip_address"
    /\ db' = [db EXCEPT !.veth_ip_addresses =
                 Insert(@, Id6(loc[p].container_id), IpToString(loc[p].ip_addr))]
    /\ Goto(p, "clone")
    /\ UNCHANGED <<imageFs, containerFs, network, scopes, loc, child, bridge, call>>

\* let pid = clone(cb, stack, NEWNS | NEWPID | NEWUTS | NEWIPC, SIGCHLD)?:
\* the child of process p has the pid p, and a copy of what p holds
clone(p) ==
    /\ pc[p] = "clone"
    /\ \/ /\ child' = [child EXCEPT ![p] = "cloned"]
          /\ Goto(p, "record")
          /\ loc' = [loc EXCEPT ![p].pid = p, ![p].child_handles = loc[p].handles]
       \/ /\ ReturnErr(p, "clone")
          /\ UNCHANGED child
    /\ UNCHANGED <<db, imageFs, containerFs, network, scopes, bridge, call>>

record_container_then_waitpid(p) ==
    LET id == loc[p].container_id IN
    /\ pc[p] = "record"
    /\ db' = [db EXCEPT !.container_commands = Insert(@, id, "command"),
                        !.container_image_hashes = Insert(@, id, ImageHash(loc[p].image)),
                        !.container_pids = Insert(@, id, loc[p].pid)]
    /\ loc' = [loc EXCEPT ![p].order = Append(@, "record")]
    /\ Goto(p, "waitpid")
    /\ UNCHANGED <<imageFs, containerFs, network, scopes, child, bridge, call>>

\* db.insert of container_commands/<id>, container_image_hashes/<id> and
\* container_pids/<id>, the last with the pid that clone returned; order is
\* the sequence of the parent's steps since the clone
record_container(p) ==
    LET id == loc[p].container_id IN
    /\ pc[p] = "record"
    /\ db' = [db EXCEPT !.container_commands = Insert(@, id, "command"),
                        !.container_image_hashes = Insert(@, id, ImageHash(loc[p].image)),
                        !.container_pids = Insert(@, id, loc[p].pid)]
    /\ loc' = [loc EXCEPT ![p].order = Append(@, "record")]
    /\ Goto(p, "create_cgroup")
    /\ UNCHANGED <<imageFs, containerFs, network, scopes, child, bridge, call>>

\* create_cgroup(container_id, pid, ..)?: build_properties and
\* StartTransientUnit may fail; the scope is made of the pid it is given
create_cgroup(p) ==
    /\ pc[p] = "create_cgroup"
    /\ \/ /\ scopes' = scopes \cup {loc[p].container_id}
          /\ Goto(p, "waitpid")
          /\ loc' = [loc EXCEPT ![p].order = Append(@, "create_cgroup"),
                                ![p].cgroup_pid = loc[p].pid]
       \/ /\ pc' = [pc EXCEPT ![p] = "done"]
          /\ loc' = [loc EXCEPT ![p].order = Append(@, "create_cgroup"),
                                ![p].result = "err", ![p].errAt = "create_cgroup"]
          /\ UNCHANGED scopes
    /\ UNCHANGED <<db, imageFs, containerFs, network, child, bridge, call>>

\* ----------------------------------------------------- the cloned child
child_body_keeping_handles(p) ==
    LET id == loc[p].container_id IN
    /\ child[p] = "cloned"
    /\ UNCHANGED loc
    /\ \/ /\ child' = [child EXCEPT ![p] = "failed"]
          /\ UNCHANGED innerMounts
       \/ /\ id \in netns
          /\ id \in containerDirs
          /\ \E k \in 0..Len(MountOrder) :
               /\ innerMounts' = [innerMounts EXCEPT ![id] = @ \cup Prefix(MountOrder, k)]
               /\ IF k < Len(MountOrder)
                  THEN child' = [child EXCEPT ![p] = "failed"]
                  ELSE \/ child' = [child EXCEPT ![p] = "failed"]
                       \/ child' = [child EXCEPT ![p] = "running"]
    /\ UNCHANGED <<db, imageFs, containerDirs, overlay, network, scopes, pc, bridge, call>>

\* The closure cb: setns into ns-<id>, sethostname, chroot(<mnt>), chdir,
\* mount_container_fs, execv.  Every step is unwrapped, so the child dies at
\* its first failure; k is the number of mounts of mount_container_fs that
\* were made before that.  setns needs the netns file and chroot the mount
\* point.  The descriptors of the store that the child was cloned
\* with are close-on-exec: the child has them until it ends or execs.
child_body(p) ==
    LET id == loc[p].container_id IN
    /\ child[p] = "cloned"
    /\ loc' = [loc EXCEPT ![p].child_handles = {}]
    /\ \/ /\ child' = [child EXCEPT ![p] = "failed"]
          /\ UNCHANGED innerMounts
       \/ /\ id \in netns
          /\ id \in containerDirs
          /\ \E k \in 0..Len(MountOrder) :
               /\ innerMounts' = [innerMounts EXCEPT ![id] = @ \cup Prefix(MountOrder, k)]
               /\ IF k < Len(MountOrder)
                  THEN child' = [child EXCEPT ![p] = "failed"]
                  ELSE \/ child' = [child EXCEPT ![p] = "failed"]
                       \/ child' = [child EXCEPT ![p] = "running"]
    /\ UNCHANGED <<db, imageFs, containerDirs, overlay, network, scopes, pc, bridge, call>>

\* the user command ends
child_exit(p) ==
    /\ child[p] = "running"
    /\ child' = [child EXCEPT ![p] = "exited"]
    /\ UNCHANGED <<db, imageFs, containerFs, network, scopes, pc, loc, bridge, call>>

\* ----------------------------------------------- run_container: teardown
\* history: the steps of the teardown a process has attempted
TeardownSteps ==
    {"umount_container_fs", "remove_veth_ip_address", "remove_keys",
     "delete_netns", "umount_overlay_fs", "remove_dir_all"}

waitpid_without_waiting(p) ==
    /\ pc[p] = "waitpid"
    /\ loc' = [loc EXCEPT ![p].child_failed = (child[p] = "failed"),
                          ![p].order = Append(@, "waitpid")]
    /\ child' = [child EXCEPT ![p] = IF @ \in {"failed", "exited"} THEN "reaped" ELSE @]
    /\ Goto(p, "umount_container_fs")
    /\ UNCHANGED <<db, imageFs, containerFs, network, scopes, bridge, call>>

\* waitpid(pid, None)?: returns when the child has ended, whatever its
\* status, which is not looked at
waitpid(p) ==
    /\ pc[p] = "waitpid"
    /\ child[p] \in {"failed", "exited"}
    /\ loc' = [loc EXCEPT ![p].child_failed = (child[p] = "failed"),
                          ![p].order = Append(@, "waitpid")]
    /\ child' = [child EXCEPT ![p] = "reaped"]
    /\ Goto(p, "umount_container_fs")
    /\ UNCHANGED <<db, imageFs, containerFs, network, scopes, bridge, call>>

\* umount_container_fs unmounts in UmountOrder and unwraps each result: the
\* number of unmounts made before the first one that fails
RECURSIVE UmountsDone(_, _)
UmountsDone(mounted, i) ==
    IF i > Len(UmountOrder) \/ UmountOrder[i] \notin mounted
    THEN i - 1
    ELSE UmountsDone(mounted, i + 1)

\* umount_container_fs(&mnt_path).unwrap()
umount_container_fs(p) ==
    LET id == loc[p].container_id
        n == UmountsDone(innerMounts[id], 1)
    IN
    /\ pc[p] = "umount_container_fs"
    /\ innerMounts' = [innerMounts EXCEPT ![id] = @ \ Prefix(UmountOrder, n)]
    /\ IF n = Len(UmountOrder)
       THEN /\ Goto(p, "remove_veth_ip_address")
            /\ loc' = [loc EXCEPT ![p].attempted = @ \cup {"umount_container_fs"}]
       ELSE /\ pc' = [pc EXCEPT ![p] = "done"]
            /\ loc' = [loc EXCEPT ![p].attempted = @ \cup {"umount_container_fs"},
                                  ![p].result = "panic",
                                  ![p].errAt = "umount_container_fs"]
    /\ UNCHANGED <<db, imageFs, containerDirs, overlay, network, scopes, child, bridge, call>>

\* let res = db.remove(veth_ip_addresses_key("ns-veth-<id6>"))?;
\* if res.is_none() { return Err(..) }; the teardown's ip_addr is the
\* string the key held
remove_veth_ip_address(p) ==
    LET id6 == Id6(loc[p].container_id)
        res == Get(db.veth_ip_addresses, id6)
    IN
    /\ pc[p] = "remove_veth_ip_address"
    /\ db' = [db EXCEPT !.veth_ip_addresses = Remove(@, id6)]
    /\ IF res = <<>>
       THEN /\ pc' = [pc EXCEPT ![p] = "done"]
            /\ loc' = [loc EXCEPT ![p].attempted = @ \cup {"remove_veth_ip_address"},
                                  ![p].result = "err",
                                  ![p].errAt = "IP address not found"]
       ELSE /\ loc' = [loc EXCEPT ![p].attempted = @ \cup {"remove_veth_ip_address"},
                                  ![p].ip_str = res[1]]
            /\ Goto(p, "remove_keys")
    /\ UNCHANGED <<imageFs, containerFs, network, scopes, child, bridge, call>>

remove_keys_but_pid(p) ==
    LET id == loc[p].container_id IN
    /\ pc[p] = "remove_keys"
    /\ db' = [db EXCEPT !.used_ip_addresses = Remove(@, loc[p].ip_str),
                        !.container_commands = Remove(@, id),
                        !.container_image_hashes = Remove(@, id)]
    /\ loc' = [loc EXCEPT ![p].attempted = @ \cup {"remove_keys"}]
    /\ Goto(p, "delete_netns")
    /\ UNCHANGED <<imageFs, containerFs, network, scopes, child, bridge, call>>

remove_keys_then_umount_overlay(p) ==
    LET id == loc[p].container_id IN
    /\ pc[p] = "remove_keys"
    /\ db' = [db EXCEPT !.used_ip_addresses = Remove(@, loc[p].ip_str),
                        !.container_commands = Remove(@, id),
                        !.container_image_hashes = Remove(@, id),
                        !.container_pids = Remove(@, id)]
    /\ loc' = [loc EXCEPT ![p].attempted = @ \cup {"remove_keys"}]
    /\ Goto(p, "umount_overlay_fs")
    /\ UNCHANGED <<imageFs, containerFs, network, scopes, child, bridge, call>>

\* db.remove of used_ip_addresses/<ip>, container_commands/<id>,
\* container_image_hashes/<id> and container_pids/<id>
remove_keys(p) ==
    LET id == loc[p].container_id IN
    /\ pc[p] = "remove_keys"
    /\ db' = [db EXCEPT !.used_ip_addresses = Remove(@, loc[p].ip_str),
                        !.container_commands = Remove(@, id),
                        !.container_image_hashes = Remove(@, id),
                        !.container_pids = Remove(@, id)]
    /\ loc' = [loc EXCEPT ![p].attempted = @ \cup {"remove_keys"}]
    /\ Goto(p, "delete_netns")
    /\ UNCHANGED <<imageFs, containerFs, network, scopes, child, bridge, call>>

\* delete_netns(&container_id).await?: NetworkNamespace::del unmounts and
\* unlinks /run/netns/ns-<id>; the links inside the namespace go with it
delete_netns(p) ==
    LET id == loc[p].container_id IN
    /\ pc[p] = "delete_netns"
    /\ IF id \in netns
       THEN /\ netns' = netns \ {id}
            /\ veths' = [x \in {y \in DOMAIN veths : veths[y].ns # id} |-> veths[x]]
            /\ Goto(p, "umount_overlay_fs")
            /\ loc' = [loc EXCEPT ![p].attempted = @ \cup {"delete_netns"}]
       ELSE /\ pc' = [pc EXCEPT ![p] = "done"]
            /\ loc' = [loc EXCEPT ![p].attempted = @ \cup {"delete_netns"},
                                  ![p].result = "err", ![p].errAt = "delete_netns"]
            /\ UNCHANGED network
    /\ UNCHANGED <<db, imageFs, containerFs, scopes, child, bridge, call>>

\* umount_overlay_fs(&container_id)?: umount(2) of fs/mnt, refused while
\* something is mounted under it or nothing is mounted on it
umount_overlay_fs(p) ==
    LET id == loc[p].container_id IN
    /\ pc[p] = "umount_overlay_fs"
    /\ IF overlay[id] > 0 /\ innerMounts[id] = {}
       THEN /\ overlay' = [overlay EXCEPT ![id] = @ - 1]
            /\ Goto(p, "remove_dir_all")
            /\ loc' = [loc EXCEPT ![p].attempted = @ \cup {"umount_overlay_fs"}]
       ELSE /\ pc' = [pc EXCEPT ![p] = "done"]
            /\ loc' = [loc EXCEPT ![p].attempted = @ \cup {"umount_overlay_fs"},
                                  ![p].result = "err", ![p].errAt = "umount_overlay_fs"]
            /\ UNCHANGED overlay
    /\ UNCHANGED <<db, imageFs, containerDirs, innerMounts, network, scopes, child, bridge, call>>

\* fs::remove_dir_all(<containers>/<id>)?; Ok(()): a mount point cannot be
\* removed, nor a directory that is not there
remove_dir_all(p) ==
    LET id == loc[p].container_id IN
    /\ pc[p] = "remove_dir_all"
    /\ IF id \in containerDirs /\ overlay[id] = 0
       THEN /\ containerDirs' = containerDirs \ {id}
            /\ pc' = [pc EXCEPT ![p] = "done"]
            /\ loc' = [loc EXCEPT ![p].attempted = @ \cup {"remove_dir_all"},
                                  ![p].result = "ok"]
       ELSE /\ pc' = [pc EXCEPT ![p] = "done"]
            /\ loc' = [loc EXCEPT ![p].attempted = @ \cup {"remove_dir_all"},
                                  ![p].result = "err", ![p].errAt = "remove_dir_all"]
            /\ UNCHANGED containerDirs
    /\ UNCHANGED <<db, imageFs, overlay, innerMounts, network, scopes, child, bridge, call>>

\* ---------------------------------------------- exec_command_in_container
\* exec_command_in_container(container_id, command) is entered
call_exec_command_in_container(p) ==
    /\ pc[p] = "idle"
    /\ \E id \in Ids : loc' = [loc EXCEPT ![p].exec_id = id]
    /\ Goto(p, "exec_get_pid")
    /\ UNCHANGED <<db, imageFs, containerFs, network, scopes, child, bridge, call>>

exec_get_pid_unchecked(p) ==
    LET res == Get(db.container_pids, loc[p].exec_id) IN
    /\ pc[p] = "exec_get_pid"
    /\ loc' = [loc EXCEPT ![p].container_pid = IF res = <<>> THEN 0 ELSE res[1]]
    /\ Goto(p, "exec_clone")
    /\ UNCHANGED <<db, imageFs, containerFs, network, scopes, child, bridge, call>>

\* let container_pid_res = db.get(container_pids_key(&container_id))?;
\* if container_pid_res.is_none() { println!(..); return Ok(()) }
exec_get_pid(p) ==
    LET res == Get(db.container_pids, loc[p].exec_id) IN
    /\ pc[p] = "exec_get_pid"
    /\ IF res = <<>>
       THEN /\ pc' = [pc EXCEPT ![p] = "done"]
            /\ loc' = [loc EXCEPT ![p].result = "ok"]
       ELSE /\ loc' = [loc EXCEPT ![p].container_pid = res[1]]
            /\ Goto(p, "exec_clone")
    /\ UNCHANGED <<db, imageFs, containerFs, network, scopes, child, bridge, call>>

\* clone(cb, stack, CloneFlags::empty(), SIGCHLD).with_context(..)?: the
\* helper, the middle process, starts on the closure cb
exec_clone(p) ==
    /\ pc[p] = "exec_clone"
    /\ \/ /\ loc' = [loc EXCEPT ![p].forked = @ + 1, ![p].middle = "running"]
          /\ Goto(p, "exec_waitpid")
       \/ ReturnErr(p, "clone")
    /\ UNCHANGED <<db, imageFs, containerFs, network, scopes, child, bridge, call>>

\* The closure cb, first part: setns into the ipc, mnt, pid and uts
\* namespaces of /proc/<pid>/ns and into ns-<id>, each unwrapped, so the
\* helper dies at the first that fails.  They need the container's process
\* and the netns file.
exec_helper_setns(p) ==
    LET id == loc[p].exec_id
        owner == loc[p].container_pid
    IN
    /\ loc[p].middle = "running"
    /\ \/ loc' = [loc EXCEPT ![p].middle = "panicked"]
       \/ /\ owner \in Procs
          /\ child[owner] \in {"cloned", "running"}
          /\ id \in netns
          /\ loc' = [loc EXCEPT ![p].joined = TRUE, ![p].middle = "joined"]
    /\ UNCHANGED <<db, imageFs, containerFs, network, scopes, pc, child, bridge, call>>

\* let execv_pid = clone(execv_cb, ..).with_context(..).unwrap(): the
\* process that execs the command, the grandchild
exec_helper_clone(p) ==
    /\ loc[p].middle = "joined"
    /\ \/ loc' = [loc EXCEPT ![p].middle = "panicked"]
       \/ loc' = [loc EXCEPT ![p].forked = @ + 1, ![p].middle = "forked",
                             ![p].grandchild = "running"]
    /\ UNCHANGED <<db, imageFs, containerFs, network, scopes, pc, child, bridge, call>>

\* add_process_to_cgroup(container_id, execv_pid).unwrap(): opens
\* cgroup.procs of rocker-<id>.scope, which is there when the scope is, and
\* writes the pid
exec_helper_add_process_to_cgroup(p) ==
    /\ loc[p].middle = "forked"
    /\ \/ loc' = [loc EXCEPT ![p].middle = "panicked"]
       \/ /\ loc[p].exec_id \in scopes
          /\ loc' = [loc EXCEPT ![p].middle = "attached"]
    /\ UNCHANGED <<db, imageFs, containerFs, network, scopes, pc, child, bridge, call>>

\* waitpid(execv_pid, None).unwrap(); return 0
exec_helper_waitpid(p) ==
    /\ loc[p].middle = "attached"
    /\ loc[p].grandchild = "exited"
    /\ loc' = [loc EXCEPT ![p].middle = "exited"]
    /\ UNCHANGED <<db, imageFs, containerFs, network, scopes, pc, child, bridge, call>>

\* the closure execv_cb: sethostname, chroot, chdir, execv, each unwrapped;
\* the grandchild ends when one of them fails or when the command ends
exec_grandchild(p) ==
    /\ loc[p].grandchild = "running"
    /\ loc' = [loc EXCEPT ![p].grandchild = "exited"]
    /\ UNCHANGED <<db, imageFs, containerFs, network, scopes, pc, child, bridge, call>>

exec_helper(p) ==
    \/ exec_helper_setns(p)
    \/ exec_helper_clone(p)
    \/ exec_helper_add_process_to_cgroup(p)
    \/ exec_helper_waitpid(p)
    \/ exec_grandchild(p)

\* waitpid(pid, None)?; Ok(()): returns when the helper has ended, whose
\* status is not looked at
exec_waitpid(p) ==
    /\ pc[p] = "exec_waitpid"
    /\ loc[p].middle \in {"exited", "panicked"}
    /\ pc' = [pc EXCEPT ![p] = "done"]
    /\ loc' = [loc EXCEPT ![p].result = "ok"]
    /\ UNCHANGED <<db, imageFs, containerFs, network, scopes, child, bridge, call>>

exec_command_in_container(p) ==
    \/ exec_get_pid(p)
    \/ exec_clone(p)
    \/ exec_helper(p)
    \/ exec_waitpid(p)

\* ------------------------------------------------------ parse_memory_limit
\* A Rust string is the sequence of its characters.  LF is the line feed and
\* ArabicThree the digit U+0663, a decimal digit that is not an ASCII one.
LF == "LF"
ArabicThree == "U+0663"
DigitChars == <<"0", "1", "2", "3", "4", "5", "6", "7", "8", "9">>
AsciiDigits == {DigitChars[i] : i \in 1..Len(DigitChars)}
DigitVal(c) == (CHOOSE i \in 1..Len(DigitChars) : DigitChars[i] = c) - 1

\* \d of the regex crate: any Unicode decimal digit
IsDigit(c) == c \in AsciiDigits \cup {ArabicThree}

\* Regex::new(r"(\d+)(.*)"): a match starts at the first digit at or after
\* i (0: there is none), (\d+) takes the whole run of digits and (.*) the
\* rest of the line
FirstDigitAt(s, i) ==
    IF \E j \in i..Len(s) : IsDigit(s[j])
    THEN CHOOSE j \in i..Len(s) :
            IsDigit(s[j]) /\ \A x \in i..(j - 1) : ~IsDigit(s[x])
    ELSE 0
DigitsEnd(s, j) ==
    CHOOSE k \in j..Len(s) :
        /\ \A x \in j..k : IsDigit(s[x])
        /\ k = Len(s) \/ ~IsDigit(s[k + 1])
LineEnd(s, k) ==
    CHOOSE e \in k..Len(s) :
        /\ \A x \in (k + 1)..e : s[x] # LF
        /\ e = Len(s) \/ s[e + 1] = LF

\* for cap in re.captures_iter(&mem) { bytes = cap[1]; unit = cap[2] }: the
\* matches are taken one after another and the last one stays
RECURSIVE LastCaptures(_, _, _)
LastCaptures(s, i, cap) ==
    LET j == FirstDigitAt(s, i) IN
    IF j = 0
    THEN cap
    ELSE LET k == DigitsEnd(s, j)
             e == LineEnd(s, k)
         IN LastCaptures(s, e + 1, <<SubSeq(s, j, k), SubSeq(s, k + 1, e)>>)

\* A u64 is the sequence of its decimal digits, without leading zeros.
RECURSIVE Canon(_)
Canon(d) == IF Len(d) > 1 /\ d[1] = "0" THEN Canon(Tail(d)) ELSE d
U64Max == <<"1", "8", "4", "4", "6", "7", "4", "4", "0", "7",
            "3", "7", "0", "9", "5", "5", "1", "6", "1", "5">>
LeqDec(a, b) ==
    \/ Len(a) < Len(b)
    \/ /\ Len(a) = Len(b)
       /\ \/ a = b
          \/ \E i \in 1..Len(a) :
                /\ \A j \in 1..(i - 1) : a[j] = b[j]
                /\ DigitVal(a[i]) < DigitVal(b[i])
FitsU64(n) == LeqDec(n, U64Max)
Zero == <<"0">>
TimesPow10(n, k) == IF n = Zero THEN Zero ELSE n \o [i \in 1..k |-> "0"]

\* a product that overflowed in a build without overflow checks: the product
\* modulo 2^64, which is not computed here
Wrapped == <<"wrapped">>

Ok(v) == [kind |-> "ok", value |-> v]
Err(msg) == [kind |-> "err", msg |-> msg]
Panicked == [kind |-> "panic"]
NotReturned == [kind |-> "none"]

\* bytes.parse::<u64>() is Ok: ASCII digits only, and the number fits
ParsesAsU64(bytes) ==
    /\ \A i \in 1..Len(bytes) : bytes[i] \in AsciiDigits
    /\ FitsU64(Canon(bytes))

WrongUnitExponent(unit) ==
    IF unit = <<>> THEN 0 ELSE 3

\* the match on unit: the power of ten of 1e3, 1e6, 1e9 and 1e12, or -1 in
\* the _ arm
UnitExponent(unit) ==
    IF unit = <<>> THEN 0
    ELSE IF unit \in {<<"K">>, <<"K", "B">>, <<"k">>, <<"k", "b">>} THEN 3
    ELSE IF unit \in {<<"M">>, <<"M", "B">>, <<"m">>, <<"m", "b">>} THEN 6
    ELSE IF unit \in {<<"G">>, <<"G", "B">>, <<"g">>, <<"g", "b">>} THEN 9
    ELSE IF unit \in {<<"T">>, <<"T", "B">>, <<"t">>, <<"t", "b">>} THEN 12
    ELSE 0 - 1

\* parse_memory_limit(mem): the set of its outcomes.  bytes.parse().unwrap()
\* panics; an overflowing product panics in a build with overflow checks and
\* wraps in one without.
parse_memory_limit(mem) ==
    LET cap == LastCaptures(mem, 1, <<<<>>, <<>>>>)
        bytes == cap[1]
        unit == cap[2]
    IN
    IF bytes = <<>> THEN {Err("Memory limit format invalid")}
    ELSE IF ~ParsesAsU64(bytes) THEN {Panicked}
    ELSE IF UnitExponent(unit) < 0 THEN {Err("Invalid memory unit")}
    ELSE LET product == TimesPow10(Canon(bytes), UnitExponent(unit)) IN
         IF FitsU64(product) THEN {Ok(product)} ELSE {Panicked, Ok(Wrapped)}

\* the memory limits tried: a prefix, a digit string and a suffix
MemPrefixes == {<<>>, <<"a">>, <<"-">>, <<"7", LF>>}
MemDigits ==
    {<<>>, <<"0">>, <<"2">>, <<"0", "0", "7">>, <<"5", "1", "2">>,
     <<"1", "8", "4", "4", "6", "7", "4", "4">>,
     <<"1", "8", "4", "4", "6", "7", "4", "5">>,
     U64Max, SubSeq(U64Max, 1, 19) \o <<"6">>, <<ArabicThree>>}
RecognizedUnits ==
    {<<>>, <<"K">>, <<"K", "B">>, <<"k">>, <<"k", "b">>,
     <<"M">>, <<"M", "B">>, <<"m">>, <<"m", "b">>,
     <<"G">>, <<"G", "B">>, <<"g">>, <<"g", "b">>,
     <<"T">>, <<"T", "B">>, <<"t">>, <<"t", "b">>}
MemSuffixes ==
    RecognizedUnits \cup
    {<<"x">>, <<"K", "b">>, <<"K", "i", "B">>, <<" ", "K">>, <<"K", LF>>, <<"a", "b", "c">>}
MemInputs ==
    {pre \o d \o suf : pre \in MemPrefixes, d \in MemDigits, suf \in MemSuffixes}

\* parse_memory_limit is called with call.arg and returns
call_parse_memory_limit ==
    /\ call.fn = "parse_memory_limit"
    /\ call.ret = NotReturned
    /\ \E r \in parse_memory_limit(call.arg) : call' = [call EXCEPT !.ret = r]
    /\ UNCHANGED <<db, imageFs, containerFs, network, scopes, pc, loc, child, bridge>>

\* ------------------------------------------------------- parse_image_name
\* image_name.split(':'): the pieces between the colons, empty ones too
RECURSIVE Split(_)
Split(s) ==
    IF \E i \in 1..Len(s) : s[i] = ":"
    THEN LET i == CHOOSE i \in 1..Len(s) :
                     s[i] = ":" /\ \A j \in 1..(i - 1) : s[j] # ":"
         IN <<SubSeq(s, 1, i - 1)>> \o Split(SubSeq(s, i + 1, Len(s)))
    ELSE <<s>>

\* s[0].contains('/')
Contains(s, c) == \E i \in 1..Len(s) : s[i] = c

Library == <<"l", "i", "b", "r", "a", "r", "y", "/">>
Latest == <<"l", "a", "t", "e", "s", "t">>

parse_image_name_never_prefixed(image_name) ==
    LET s == Split(image_name) IN
    IF Len(s) = 2 THEN Ok(<<s[1], s[2]>>)
    ELSE IF Len(s) = 1 THEN Ok(<<s[1], Latest>>)
    ELSE Err("too many colons")

parse_image_name_always_prefixed(image_name) ==
    LET s == Split(image_name) IN
    IF Len(s) = 2 THEN Ok(<<Library \o s[1], s[2]>>)
    ELSE IF Len(s) = 1 THEN Ok(<<Library \o s[1], Latest>>)
    ELSE Err("too many colons")

\* parse_image_name(image_name): the match on s.len()
parse_image_name(image_name) ==
    LET s == Split(image_name) IN
    IF Len(s) = 2
    THEN IF Contains(s[1], "/")
         THEN Ok(<<s[1], s[2]>>)
         ELSE Ok(<<Library \o s[1], s[2]>>)
    ELSE IF Len(s) = 1
    THEN IF Contains(s[1], "/")
         THEN Ok(<<s[1], Latest>>)
         ELSE Ok(<<Library \o s[1], Latest>>)
    ELSE Err("too many colons")

\* the image names tried: every string of a, / and : up to MaxNameLen long
RECURSIVE NamesOfLen(_)
NamesOfLen(n) ==
    IF n = 0 THEN {<<>>}
    ELSE {Append(x, c) : x \in NamesOfLen(n - 1), c \in {"a", "/", ":"}}
NameInputs == UNION {NamesOfLen(n) : n \in 0..MaxNameLen}

\* the result of parse_image_name for call.arg
ParseImageNameOfArg == parse_image_name(call.arg)

\* parse_image_name is called with call.arg and returns
call_parse_image_name ==
    /\ call.fn = "parse_image_name"
    /\ call.ret = NotReturned
    /\ call' = [call EXCEPT !.ret = ParseImageNameOfArg]
    /\ UNCHANGED <<db, imageFs, containerFs, network, scopes, pc, loc, child, bridge>>

\* ------------------------------------------------------- build_properties
\* Option<T>: None is the empty sequence, Some(x) the sequence of x
None == <<>>
Some(x) == <<x>>

\* a u64 that TLC can hold, as the sequence of its decimal digits
RECURSIVE ToDec(_)
ToDec(n) ==
    IF n < 10 THEN <<DigitChars[n + 1]>>
    ELSE ToDec(n \div 10) \o <<DigitChars[(n % 10) + 1]>>

\* --cpus is an f32; the values tried are the multiples q/4 of a quarter,
\* given by q.  (cpus * 1000000.0).round() as u64: the product is exact for
\* them, and the cast of a negative float gives 0
CpuQuota(q) == ToDec(IF q < 0 THEN 0 ELSE q * 250000)

\* pids.unwrap() as u64: the cast of a negative i32 sign-extends, so n < 0
\* becomes 2^64 + n; written out for the n down to -1616, which change only
\* the last four digits of 2^64 = 18446744073709551616
I32AsU64(n) ==
    IF n >= 0 THEN ToDec(n)
    ELSE SubSeq(U64Max, 1, 16) \o Tail(ToDec(10000 + 1616 + n))

Property(name, value) == [name |-> name, value |-> value]

PidsPropertiesAlways(pids) ==
    <<Property("TasksAccounting", TRUE),
      Property("TasksMax", IF pids = None THEN Zero ELSE I32AsU64(pids[1]))>>

\* if pids.is_some() { push TasksAccounting; push TasksMax }
PidsProperties(pids) ==
    IF pids # None
    THEN <<Property("TasksAccounting", TRUE),
           Property("TasksMax", I32AsU64(pids[1]))>>
    ELSE <<>>

\* build_properties(target_pid, mem, cpus, pids, container_id): the set of
\* its outcomes.  parse_memory_limit(..)? returns the parser's error, and a
\* panic of the parser is a panic here.
build_properties(target_pid, mem, cpus, pids, container_id) ==
    LET head == <<Property("PIDs", <<target_pid>>),
                  Property("Description", <<"rocker container: ", container_id>>)>>
        memory ==
            IF mem # None
            THEN {IF r.kind = "ok"
                  THEN Ok(<<Property("MemoryAccounting", TRUE),
                            Property("MemoryMax", r.value)>>)
                  ELSE r : r \in parse_memory_limit(mem[1])}
            ELSE {Ok(<<>>)}
        cpu ==
            IF cpus # None
            THEN <<Property("CPUAccounting", TRUE),
                   Property("CPUQuotaPerSecUSec", CpuQuota(cpus[1]))>>
            ELSE <<>>
    IN {IF m.kind = "ok"
        THEN Ok(head \o m.value \o cpu \o PidsProperties(pids))
        ELSE m : m \in memory}

\* the arguments tried
PropsTargetPids == {1, 4242}
PropsMems ==
    {None, Some(<<"0">>), Some(<<"1", "M">>), Some(<<"a", "b", "c">>),
     Some(<<"2", "x">>), Some(<<>>), Some(SubSeq(U64Max, 1, 19) \o <<"6">>)}
PropsCpus == {None} \cup {Some(q) : q \in {0 - 1, 0, 2, 6}}
PropsPids == {None} \cup {Some(n) : n \in {0 - 1, 0, 100}}
PropsInputs ==
    [target_pid : PropsTargetPids, mem : PropsMems, cpus : PropsCpus,
     pids : PropsPids, container_id : Ids]

\* build_properties is called with call.arg and returns
call_build_properties ==
    /\ call.fn = "build_properties"
    /\ call.ret = NotReturned
    /\ \E r \in build_properties(call.arg.target_pid, call.arg.mem, call.arg.cpus,
                                 call.arg.pids, call.arg.container_id) :
          call' = [call EXCEPT !.ret = r]
    /\ UNCHANGED <<db, imageFs, containerFs, network, scopes, pc, loc, child, bridge>>

\* ------------------------------------------------- fetch_available_images
\* fetch_available_images, called by print_available_images for
\* `rocker images`: for every entry of fs::read_dir(<images>),
\* db.get(image_hash_key(&image_hash)).unwrap().unwrap() panics when the
\* directory has no downloaded_images entry
fetch_available_images(p) ==
    /\ pc[p] = "idle"
    /\ pc' = [pc EXCEPT ![p] = "done"]
    /\ IF \A h \in DOMAIN imgLayers : Get(db.downloaded_images, h) # <<>>
       THEN loc' = [loc EXCEPT ![p].result = "ok"]
       ELSE loc' = [loc EXCEPT ![p].result = "panic",
                               ![p].errAt = "fetch_available_images"]
    /\ UNCHANGED <<db, imageFs, containerFs, network, scopes, child, bridge, call>>

\* ------------------------------------------------------------------- spec
RunContainer(p) ==
    \/ create_container_id(p)
    \/ LookUpImage(p)
    \/ create_container_directories(p)
    \/ mount_overlay_fs(p)
    \/ setup_netns(p)
    \/ add_veth_pair(p)
    \/ add_veth_to_netns(p)
    \/ check_ip_address(p)
    \/ insert_ip_address(p)
    \/ run_in_network_namespace(p)
    \/ insert_veth_ip_address(p)
    \/ clone(p)
    \/ record_container(p)
    \/ create_cgroup(p)
    \/ waitpid(p)
    \/ umount_container_fs(p)
    \/ remove_veth_ip_address(p)
    \/ remove_keys(p)
    \/ delete_netns(p)
    \/ umount_overlay_fs(p)
    \/ remove_dir_all(p)

\* The container lifecycle: concurrent `rocker run` processes on a host
\* whose image cache is populated, as a run leaves it that downloaded the
\* image and then failed to create its container directory.
InitCached ==
    /\ db = [downloaded_images |-> [h \in Images |-> h],
             container_commands |-> EmptyMap,
             container_image_hashes |-> EmptyMap, container_pids |-> EmptyMap,
             used_ip_addresses |-> EmptyMap, veth_ip_addresses |-> EmptyMap]
    /\ tmpFiles = EmptyMap
    /\ imgLayers = [h \in Images |-> [l \in Layers |-> "ok"]]
    /\ containerDirs = {}
    /\ overlay = [id \in Ids |-> 0]
    /\ innerMounts = [id \in Ids |-> {}]
    /\ netns = {}
    /\ veths = EmptyMap
    /\ scopes = {}
    /\ pc = [p \in Procs |-> "idle"]
    /\ loc = [p \in Procs |-> InitLoc]
    /\ child = [p \in Procs |-> "none"]
    /\ bridge = BridgeUp
    /\ call = NoCall

Next ==
    \E p \in Procs :
        \/ StartRun(p)
        \/ RunContainer(p)
        \/ child_body(p)
        \/ child_exit(p)

Spec == InitCached /\ [][Next]_vars

\* The same, with the address allocations one after another: no process is
\* inside create_ip_address while another one is.
Allocating(p) == pc[p] \in {"create_ip_address", "insert_ip_address"}

NextSeq ==
    /\ Next
    /\ \A p, q \in Procs : Allocating(p)' /\ Allocating(q)' => p = q

SpecSeq == InitCached /\ [][NextSeq]_vars

\* The image manager: concurrent calls of download_image_if_needed on a
\* host that has no image yet.
NextImage ==
    \E p \in Procs :
        \/ call_download_image_if_needed(p)
        \/ LookUpImage(p)
        \/ DownloadImage(p)

SpecImage == Init /\ [][NextImage]_vars

\* The image manager and `rocker images`: calls of fetch_available_images
\* beside the calls of download_image_if_needed.
NextList ==
    \/ NextImage
    \/ \E p \in Procs : fetch_available_images(p)

SpecList == Init /\ [][NextList]_vars

\* The address pool: concurrent calls of create_ip_address on a store in
\* which any of the addresses that can be drawn are marked used.
InitAlloc ==
    /\ tmpFiles = EmptyMap
    /\ imgLayers = EmptyMap
    /\ containerDirs = {}
    /\ overlay = [id \in Ids |-> 0]
    /\ innerMounts = [id \in Ids |-> {}]
    /\ netns = {}
    /\ veths = EmptyMap
    /\ scopes = {}
    /\ pc = [p \in Procs |-> "idle"]
    /\ loc = [p \in Procs |-> InitLoc]
    /\ child = [p \in Procs |-> "none"]
    /\ bridge = BridgeUp
    /\ call = NoCall
    /\ \E used \in SUBSET RandomAddrs :
          db = [downloaded_images |-> EmptyMap, container_commands |-> EmptyMap,
                container_image_hashes |-> EmptyMap, container_pids |-> EmptyMap,
                used_ip_addresses |-> [k \in {IpToString(a) : a \in used} |-> "1"],
                veth_ip_addresses |-> EmptyMap]

NextAlloc ==
    \E p \in Procs :
        \/ call_create_ip_address(p)
        \/ check_ip_address(p)
        \/ insert_ip_address(p)

\* the iteration of the loop in which thread_rng draws an address that is
\* not marked used
DrawFree(p) == check_ip_address(p) /\ ~IpInUse(db, loc'[p].ip_addr)

\* Every process goes on running, and thread_rng is fair: a call that can
\* again and again draw an address that is not marked used draws one.
FairAlloc ==
    \A p \in Procs :
        /\ WF_vars(check_ip_address(p))
        /\ WF_vars(insert_ip_address(p))
        /\ SF_vars(DrawFree(p))

SpecAlloc == InitAlloc /\ [][NextAlloc]_vars /\ FairAlloc

\* The bridge: concurrent `rocker run` processes up to their call of
\* run_container, and calls of setup_network_bridge, on a host that has no
\* link rocker0.
NextBridge ==
    \E p \in Procs :
        \/ StartMain(p)
        \/ is_network_bridge_up(p)
        \/ call_setup_network_bridge(p)
        \/ setup_network_bridge(p)

SpecBridge == Init /\ [][NextBridge]_vars

\* The container lifecycle together with calls of
\* exec_command_in_container.
NextExec ==
    \/ Next
    \/ \E p \in Procs :
        \/ call_exec_command_in_container(p)
        \/ exec_command_in_container(p)

SpecExec == InitCached /\ [][NextExec]_vars

\* parse_memory_limit on each of the memory limits tried
InitMem ==
    /\ EmptyHost
    /\ \E m \in MemInputs :
          call = [fn |-> "parse_memory_limit", arg |-> m, ret |-> NotReturned]

SpecMem == InitMem /\ [][call_parse_memory_limit]_vars

\* parse_image_name on each of the image names tried
InitName ==
    /\ EmptyHost
    /\ \E n \in NameInputs :
          call = [fn |-> "parse_image_name", arg |-> n, ret |-> NotReturned]

SpecName == InitName /\ [][call_parse_image_name]_vars

\* build_properties on each of the arguments tried
InitProps ==
    /\ EmptyHost
    /\ \E a \in PropsInputs :
          call = [fn |-> "build_properties", arg |-> a, ret |-> NotReturned]

SpecProps == InitProps /\ [][call_build_properties]_vars

\* ----------------------------------------------------------------- claims
Returned(p, r) == pc[p] = "done" /\ loc[p].result = r

HasContainerKey(store, id) ==
    \/ id \in DOMAIN store.container_commands
    \/ id \in DOMAIN store.container_image_hashes
    \/ id \in DOMAIN store.container_pids

\* C1: when run_container returns Ok for container <id>, the directory
\* <containers>/<id> and the netns file ns-<id> do not exist and the store
\* holds none of container_commands/<id>, container_image_hashes/<id> and
\* container_pids/<id>.
C1_SuccessfulRunLeavesNothing ==
    [][\A p \in Procs :
          (pc[p] # "done" /\ pc'[p] = "done" /\ loc'[p].result = "ok") =>
              /\ loc'[p].container_id \notin containerDirs'
              /\ loc'[p].container_id \notin netns'
              /\ ~HasContainerKey(db', loc'[p].container_id)]_vars

\* a run has returned Ok while another container, of the same id6, is set up
C1_Witness ==
    \E p, q \in Procs :
        /\ p # q
        /\ Returned(p, "ok")
        /\ child[p] = "reaped"
        /\ loc[p].attempted = TeardownSteps
        /\ pc[q] \in {"clone", "record", "create_cgroup", "waitpid"}
        /\ Id6(loc[q].container_id) = Id6(loc[p].container_id)

\* the container of p holds the address create_ip_address returned to it:
\* from that return until the teardown takes the address from the store, or
\* for good when run_container gave up with the child alive
HoldsAddress(p) ==
    \/ pc[p] \in {"run_in_network_namespace", "insert_veth_ip_address", "clone",
                  "record", "create_cgroup", "waitpid", "umount_container_fs",
                  "remove_veth_ip_address"}
    \/ pc[p] = "done" /\ child[p] \in {"cloned", "running"}

\* C2: when the allocations are made one after another, the addresses held
\* by containers that are live at the same time are pairwise distinct, and
\* the address create_ip_address is about to return has no
\* used_ip_addresses key.
C2_SequentialAddressesDistinct ==
    /\ \A p, q \in Procs :
          p # q /\ HoldsAddress(p) /\ HoldsAddress(q) => loc[p].ip_addr # loc[q].ip_addr
    /\ \A p \in Procs :
          pc[p] = "insert_ip_address" => ~IpInUse(db, loc[p].ip_addr)

\* two containers are live at once, the second on a re-rolled address
C2_Witness ==
    \E p, q \in Procs :
        /\ p # q
        /\ pc[p] = "waitpid" /\ child[p] = "running"
        /\ pc[q] = "waitpid" /\ child[q] = "running"
        /\ loc[p].ip_addr = FirstCandidate
        /\ loc[q].ip_addr # FirstCandidate

\* C3: every directory under the containers root has a
\* container_commands/<id> and a container_image_hashes/<id> entry.
C3_DirectoryHasEntries ==
    \A id \in containerDirs :
        /\ id \in DOMAIN db.container_commands
        /\ id \in DOMAIN db.container_image_hashes

\* C4: used_ip_addresses/<ip> is present if and only if some
\* veth_ip_addresses/ns-veth-<id6> key maps to ip.
C4_UsedIffVethMapping ==
    \A k \in DOMAIN db.used_ip_addresses \cup
             {db.veth_ip_addresses[v] : v \in DOMAIN db.veth_ip_addresses} :
        k \in DOMAIN db.used_ip_addresses
            <=> \E v \in DOMAIN db.veth_ip_addresses : db.veth_ip_addresses[v] = k

\* the container of p has been created and is not torn down yet
Known(p) ==
    pc[p] \notin {"idle", "create_container_id", "get_manifest",
                  "is_image_already_downloaded", "create_container_directories",
                  "done"}

\* C5: the id create_container_id returns for a new container differs from
\* the id of every other container that is known at that moment.
C5_NewIdDiffersFromKnown ==
    [][\A p, q \in Procs :
          (p # q /\ Known(p) /\ pc[q] = "create_container_id" /\ pc'[q] # pc[q])
              => loc'[q].container_id # loc[p].container_id]_vars

\* C6: when a step of the teardown fails, every step of the teardown has
\* been attempted by the time run_container returns.
C6_TeardownGoesOn ==
    \A p \in Procs :
        (pc[p] = "done" /\ loc[p].result # "ok" /\ loc[p].attempted # {})
            => loc[p].attempted = TeardownSteps

\* download_image_if_needed has returned Ok to p
Downloaded(p) == pc[p] = "create_container_directories"

\* C7 as stated: a call of download_image_if_needed that finds the image
\* downloaded performs no network I/O at all.
C7_SecondCallNoNetworkIO ==
    \A p \in Procs : loc[p].cachedAtEntry => loc[p].netIO = {}

\* C7: a call of download_image_if_needed that finds the image downloaded
\* fetches no layer blob and writes nothing under <tmp>; it does authenticate
\* and fetch the manifest.
C7_SecondCallFetchesNoBlob ==
    \A p \in Procs :
        loc[p].cachedAtEntry =>
            /\ "blob" \notin loc[p].netIO
            /\ loc[p].fetched = {}
            /\ Downloaded(p) => loc[p].netIO = {"auth", "manifest"}

\* a first call has downloaded the image and a second one, entered after
\* that, has returned Ok
C7_Witness ==
    \E p, q \in Procs :
        /\ p # q
        /\ Downloaded(p) /\ ~loc[p].cachedAtEntry /\ "blob" \in loc[p].netIO
        /\ Downloaded(q) /\ loc[q].cachedAtEntry
        /\ loc[q].image = loc[p].image

\* p is inside download_image, or about to record its result, and has
\* fetched a layer blob
Downloading(p) ==
    /\ pc[p] \in {"pull", "extract_layers", "insert_image"}
    /\ "blob" \in loc[p].netIO

\* C8: of two concurrent calls of download_image_if_needed for the same
\* image hash at most one downloads and extracts the layers.
C8_AtMostOneDownload ==
    \A p, q \in Procs :
        (p # q /\ ImageHash(loc[p].image) = ImageHash(loc[q].image))
            => ~(Downloading(p) /\ Downloading(q))

\* C9: whenever downloaded_images/<hash> is present, every layer of the
\* manifest was extracted successfully.
C9_DownloadedImpliesExtracted ==
    \A h \in DOMAIN db.downloaded_images :
        /\ h \in DOMAIN imgLayers
        /\ \A l \in Layers : l \in DOMAIN imgLayers[h] /\ imgLayers[h][l] = "ok"

\* C10: when download_image_if_needed fails after it has created <tmp>/<hash>,
\* neither <tmp>/<hash> nor a partially extracted <images>/<hash> is left
\* when it returns.
C10_FailedDownloadCleansUp ==
    [][\A p \in Procs :
          (/\ pc[p] \in {"pull", "extract_layers"}
           /\ pc'[p] = "done"
           /\ loc'[p].result # "ok")
              => /\ ImageHash(loc[p].image) \notin DOMAIN tmpFiles'
                 /\ \/ ImageHash(loc[p].image) \notin DOMAIN imgLayers'
                    \/ \A l \in DOMAIN imgLayers'[ImageHash(loc[p].image)] :
                           imgLayers'[ImageHash(loc[p].image)][l] = "ok"]_vars

\* C11: a call of setup_network_bridge made after a call of it has returned
\* Ok succeeds and leaves the system as it found it: every step of it leaves
\* rocker0 unchanged, it adds no link and no address, and rocker0 is up with
\* at most the one address 172.28.0.1/16 when it returns.
C11_SecondSetupChangesNothing ==
    [][\A p \in Procs :
          (loc[p].setup = "entered" /\ loc[p].afterOk /\ pc'[p] # pc[p]) =>
              /\ bridge' = bridge
              /\ pc'[p] \notin {"bridge_link_add", "bridge_address_add"}
              /\ loc'[p].setup # "err"
              /\ loc'[p].setup = "ok" =>
                    bridge'.exists /\ bridge'.up /\ bridge'.addrs \subseteq {BridgeAddr}]_vars

\* a call has created the bridge and returned Ok, and a call entered after
\* that has returned Ok too
C11_Witness ==
    \E p, q \in Procs :
        /\ p # q
        /\ loc[p].setup = "ok" /\ ~loc[p].afterOk
        /\ loc[q].setup = "ok" /\ loc[q].afterOk
        /\ bridge = BridgeUp

\* C12: run processes that make the bridge check and the bridge set-up
\* concurrently, from a host with no rocker0, all complete them without
\* error, and once they have, rocker0 exists, is up and has the single
\* address 172.28.0.1/16.
C12_ConcurrentSetupSucceeds ==
    /\ \A p \in Procs : loc[p].viaMain => loc[p].setup # "err"
    /\ (\A p \in Procs : loc[p].viaMain /\ pc[p] = "create_container_id")
           => bridge = BridgeUp

\* C13: address allocation is not race-free.  The get and the insert of
\* create_ip_address are two store operations: a process that found its
\* candidate unused inserts the key and returns the candidate whatever the
\* store holds by then, so two concurrent executions can return the same
\* address (the witness).
C13_InsertDoesNotLookAgain ==
    [][\A p \in Procs :
          (pc[p] = "insert_ip_address" /\ pc'[p] # pc[p]) =>
              /\ pc'[p] = "run_in_network_namespace"
              /\ loc'[p].ip_addr = loc[p].ip_addr
              /\ IpInUse(db', loc[p].ip_addr)]_vars

\* two concurrent executions of create_ip_address have returned the same
\* address
C13_Witness ==
    \E p, q \in Procs :
        /\ p # q
        /\ pc[p] = "run_in_network_namespace"
        /\ pc[q] = "run_in_network_namespace"
        /\ loc[p].ip_addr = loc[q].ip_addr
        /\ loc[p].container_id # loc[q].container_id

\* C14: exec_command_in_container for an id that has no container_pids/<id>
\* entry returns Ok without forking a process or joining a namespace, and
\* leaves the store unchanged.
C14_ExecUnknownIdIsNoOp ==
    [][\A p \in Procs :
          (/\ pc[p] = "exec_get_pid"
           /\ pc'[p] # pc[p]
           /\ Get(db.container_pids, loc[p].exec_id) = <<>>)
              => /\ pc'[p] = "done"
                 /\ loc'[p].result = "ok"
                 /\ loc'[p].forked = 0
                 /\ ~loc'[p].joined
                 /\ db' = db]_vars

\* an exec for an unknown id has returned while another container is
\* running and has its container_pids entry
C14_Witness ==
    \E p, q \in Procs :
        /\ p # q
        /\ loc[p].exec_id # NoId
        /\ Returned(p, "ok")
        /\ loc[p].forked = 0
        /\ pc[q] = "waitpid" /\ child[q] = "running"
        /\ loc[q].container_id # loc[p].exec_id
        /\ loc[q].container_id \in DOMAIN db.container_pids

\* C15: when the cloned child has ended because of a failure of its own
\* (setns, sethostname, chroot, a mount or execv), run_container does not
\* return Ok.
C15_ChildFailureIsReported ==
    \A p \in Procs : loc[p].child_failed => ~Returned(p, "ok")

\* the form <one or more ASCII digits><recognized unit>: where the digits
\* end, or 0 when the string is not of that form
FormSplit(m) ==
    IF \E i \in 1..Len(m) :
          /\ \A x \in 1..i : m[x] \in AsciiDigits
          /\ SubSeq(m, i + 1, Len(m)) \in RecognizedUnits
    THEN CHOOSE i \in 1..Len(m) :
          /\ \A x \in 1..i : m[x] \in AsciiDigits
          /\ SubSeq(m, i + 1, Len(m)) \in RecognizedUnits
    ELSE 0

\* the SI multiplier of a recognized unit, as a power of ten
SIExponent(u) ==
    IF u = <<>> THEN 0
    ELSE IF u[1] \in {"K", "k"} THEN 3
    ELSE IF u[1] \in {"M", "m"} THEN 6
    ELSE IF u[1] \in {"G", "g"} THEN 9
    ELSE 12

MemCallReturned == call.fn = "parse_memory_limit" /\ call.ret # NotReturned

\* C16: for a string of one or more decimal digits followed by a recognized
\* unit, whose product fits in a u64, parse_memory_limit returns the digits
\* times the SI multiplier; "0" yields 0, "512M" 512000000 and "2GB"
\* 2000000000.
C16_ParsesDigitsTimesMultiplier ==
    MemCallReturned =>
        LET m == call.arg
            i == FormSplit(m)
            expected == TimesPow10(Canon(SubSeq(m, 1, i)),
                                   SIExponent(SubSeq(m, i + 1, Len(m))))
        IN /\ (i > 0 /\ FitsU64(expected)) => call.ret = Ok(expected)
           /\ m = <<"0">> => call.ret = Ok(<<"0">>)
           /\ m = <<"5", "1", "2", "M">> =>
                 call.ret = Ok(<<"5", "1", "2", "0", "0", "0", "0", "0", "0">>)
           /\ m = <<"2", "G", "B">> =>
                 call.ret = Ok(<<"2", "0", "0", "0", "0", "0", "0", "0", "0", "0">>)

\* parse_memory_limit("007kb") has returned 7000
C16_Witness ==
    /\ MemCallReturned
    /\ call.arg = <<"0", "0", "7", "k", "b">>
    /\ call.ret = Ok(<<"7", "0", "0", "0">>)

\* C17: for a string that is not of the form <one or more digits><recognized
\* unit>, parse_memory_limit returns an error.
C17_OtherStringsAreErrors ==
    (MemCallReturned /\ FormSplit(call.arg) = 0) => call.ret.kind = "err"

NameCallReturned == call.fn = "parse_image_name" /\ call.ret # NotReturned

Colons(s) == {i \in 1..Len(s) : s[i] = ":"}

\* the name the claim gives a first token
Prefixed(token) == IF \E i \in 1..Len(token) : token[i] = "/"
                   THEN token
                   ELSE Library \o token

\* C18: with no colon parse_image_name returns (token, "latest"), with one
\* colon (first, second), "library/" being put before the name exactly when
\* it has no '/'; with more than one colon it returns the error "too many
\* colons".
C18_ParseImageNameCases ==
    NameCallReturned =>
        LET s == call.arg
            n == Cardinality(Colons(s))
        IN /\ n = 0 => call.ret = Ok(<<Prefixed(s), Latest>>)
           /\ n = 1 => LET i == CHOOSE i \in Colons(s) : TRUE IN
                       call.ret = Ok(<<Prefixed(SubSeq(s, 1, i - 1)),
                                       SubSeq(s, i + 1, Len(s))>>)
           /\ n > 1 => call.ret = Err("too many colons")

\* parse_image_name("a:a") has returned ("library/a", "a")
C18_Witness ==
    /\ NameCallReturned
    /\ call.arg = <<"a", ":", "a">>
    /\ call.ret = Ok(<<Library \o <<"a">>, <<"a">>>>)

\* C19: when parse_image_name(name) returns (n, t), parse_image_name of
\* n + ":" + t returns (n, t) too.
C19_ParseImageNameRoundTrip ==
    (NameCallReturned /\ call.ret.kind = "ok") =>
        parse_image_name(call.ret.value[1] \o <<":">> \o call.ret.value[2]) = call.ret

\* parse_image_name("a") has returned ("library/a", "latest"), and so does
\* parse_image_name("library/a:latest")
C19_Witness ==
    /\ NameCallReturned
    /\ call.arg = <<"a">>
    /\ call.ret = Ok(<<Library \o <<"a">>, Latest>>)
    /\ parse_image_name(Library \o <<"a", ":">> \o Latest) = call.ret

PropsCallReturned == call.fn = "build_properties" /\ call.ret # NotReturned

\* the entries of a property vector that have the name
Entries(vec, name) == {i \in 1..Len(vec) : vec[i].name = name}

\* the vector has the name exactly once when wanted, and not at all otherwise
EmittedIff(vec, name, wanted) ==
    Cardinality(Entries(vec, name)) = IF wanted THEN 1 ELSE 0

TeardownOrder ==
    <<"umount_container_fs", "remove_veth_ip_address", "remove_keys",
      "delete_netns", "umount_overlay_fs", "remove_dir_all">>

\* p takes a step of its teardown
TeardownStep(p) == loc'[p].attempted # loc[p].attempted

\* no other run process has drawn the container id of p
OwnId(p) ==
    \A q \in Procs : q # p => loc[q].container_id # loc[p].container_id

\* C21: the teardown takes its steps in the order unmount the inner mounts,
\* veth mapping, keys, netns, overlay, directory: each step is taken when
\* exactly the steps before it have been, so the directory is removed only
\* after the overlay was unmounted and the overlay unmounted only after the
\* netns was deleted; for a container whose id is its own, the overlay is
\* not mounted when the directory goes and the netns does not exist when the
\* overlay is unmounted.
C21_TeardownOrder ==
    [][\A p \in Procs :
          TeardownStep(p) =>
              \E k \in 1..Len(TeardownOrder) :
                  /\ loc[p].attempted = Prefix(TeardownOrder, k - 1)
                  /\ loc'[p].attempted = Prefix(TeardownOrder, k)
                  /\ (OwnId(p) /\ containerDirs' # containerDirs)
                        => overlay[loc[p].container_id] = 0
                  /\ (OwnId(p) /\ overlay' # overlay)
                        => loc[p].container_id \notin netns]_vars

\* a teardown has gone through all of its steps and removed the directory
C21_Witness ==
    \E p \in Procs :
        /\ Returned(p, "ok")
        /\ loc[p].attempted = Prefix(TeardownOrder, Len(TeardownOrder))
        /\ loc[p].container_id \notin containerDirs
        /\ OwnId(p)

\* C22: every step of a container's teardown is taken after waitpid on its
\* child has returned: the child is not running, it has been reaped.
C22_TeardownAfterWaitpid ==
    [][\A p \in Procs : TeardownStep(p) => child[p] = "reaped"]_vars

\* a teardown is under way for a container whose command ran and ended
C22_Witness ==
    \E p \in Procs :
        /\ pc[p] = "delete_netns"
        /\ child[p] = "reaped"
        /\ ~loc[p].child_failed

\* the container of p is set up: its directories exist, the overlay is
\* mounted, ns-<id> exists and the container side of the veth pair is in it
IsSetUp(p) ==
    LET id == loc[p].container_id IN
    /\ id \in containerDirs
    /\ overlay[id] > 0
    /\ id \in netns
    /\ Id6(id) \in DOMAIN veths
    /\ veths[Id6(id)].ns = id

\* C23: the child is cloned when the container directories exist, the
\* overlay is mounted, ns-<id> exists and the veth pair is wired, and the
\* same is true when the child runs its setns, chroot and mounts.
C23_CloneAfterSetup ==
    [][\A p \in Procs :
          /\ (child[p] = "none" /\ child'[p] = "cloned") => IsSetUp(p)
          /\ (child[p] = "cloned" /\ child'[p] # "cloned") => IsSetUp(p)]_vars

\* a child has gone through setns, chroot and the mounts and runs the command
C23_Witness ==
    \E p \in Procs :
        /\ child[p] = "running"
        /\ innerMounts[loc[p].container_id] = Prefix(MountOrder, Len(MountOrder))
        /\ IsSetUp(p)

\* the parent's steps between the clone and the teardown, in their order
AfterClone == <<"record", "create_cgroup", "waitpid">>

\* C24: after the clone the parent writes the three container_* keys, then
\* calls create_cgroup with the pid of the cloned child, then waits for the
\* child: create_cgroup is called when the child exists and the keys are
\* written, and waitpid has not returned.
C24_RecordCgroupWait ==
    [][\A p \in Procs :
          LET id == loc[p].container_id IN
          loc'[p].order # loc[p].order =>
              /\ \E k \in 1..Len(AfterClone) :
                    /\ loc[p].order = SubSeq(AfterClone, 1, k - 1)
                    /\ loc'[p].order = SubSeq(AfterClone, 1, k)
              /\ child[p] \notin {"none", "reaped"}
              /\ loc[p].pid = p
              /\ pc[p] = "record" =>
                    /\ Get(db'.container_pids, id) = <<loc[p].pid>>
                    /\ Get(db'.container_commands, id) # <<>>
                    /\ Get(db'.container_image_hashes, id) # <<>>
              /\ (pc[p] = "create_cgroup" /\ pc'[p] = "waitpid") =>
                    loc'[p].cgroup_pid = loc[p].pid]_vars

\* a parent has written the keys, made the scope of its child and waited
C24_Witness ==
    \E p \in Procs :
        /\ loc[p].order = AfterClone
        /\ loc[p].cgroup_pid = p
        /\ child[p] = "reaped"

\* C25: exec_command_in_container on a container with a recorded pid
\* returns only after the helper has ended and the process that runs the
\* command has ended; the helper clones that process after it has joined
\* the five namespaces, and waits for it after it has put it in the cgroup.
C25_ExecReturnsAfterCommand ==
    \A p \in Procs :
        /\ loc[p].grandchild # "none" => loc[p].joined
        /\ loc[p].middle = "exited" => loc[p].grandchild = "exited"
        /\ (pc[p] = "done" /\ loc[p].middle # "none") =>
              /\ loc[p].middle \in {"exited", "panicked"}
              /\ loc[p].grandchild # "running"

\* p takes a step of the loop of extract_layers
ExtractStep(p) == pc[p] = "extract_layers" /\ loc[p].layer_i <= NumLayers /\ pc'[p] # "idle"
                  /\ (loc'[p].layer_i # loc[p].layer_i \/ pc'[p] = "done")

\* C26: a call of download_image starts to extract when every blob fetch of
\* the call has completed; it extracts layer k when it has extracted the
\* layers before k of the manifest, and no other; and a call of which a
\* blob fetch has failed ends there, having extracted no layer and written
\* no downloaded_images key.
C26_ExtractAfterAllFetched ==
    [][\A p \in Procs :
          LET h == ImageHash(loc[p].image) IN
          /\ ExtractStep(p) => loc[p].fetched = Layers
          /\ imgLayers' # imgLayers /\ ExtractStep(p) =>
                /\ loc'[p].layer_i = loc[p].layer_i + 1
                /\ imgLayers'[h][loc[p].layer_i] \in {"ok", "partial"}
                /\ \A k \in Layers \ {loc[p].layer_i} :
                      /\ k \in DOMAIN imgLayers'[h] <=>
                            (h \in DOMAIN imgLayers /\ k \in DOMAIN imgLayers[h])
                      /\ k \in DOMAIN imgLayers'[h] => imgLayers'[h][k] = imgLayers[h][k]
          /\ (pc[p] = "pull" /\ pc'[p] = "done") =>
                /\ loc'[p].result = "panic"
                /\ loc'[p].layer_i = 1
                /\ imgLayers' = imgLayers
                /\ db' = db
          /\ (pc[p] = "done" /\ loc[p].errAt \in {"get_blob", "File::create"}) =>
                /\ pc'[p] = "done"
                /\ loc'[p].layer_i = 1]_vars

\* a call has fetched a layer and failed to fetch the next: it has ended
\* with nothing extracted and the image is not recorded
C26_Witness ==
    \E p \in Procs :
        /\ Returned(p, "panic")
        /\ loc[p].errAt = "get_blob"
        /\ loc[p].fetched # {}
        /\ loc[p].layer_i = 1
        /\ ImageHash(loc[p].image) \notin DOMAIN db.downloaded_images
        /\ ImageHash(loc[p].image) \notin DOMAIN imgLayers

\* a step of p's container child, and a step through the forked helper of
\* run_in_network_namespace
ChildStep(p) == child'[p] # child[p] /\ pc'[p] = pc[p]
HelperStep(p) == pc[p] = "run_in_network_namespace" /\ pc'[p] # pc[p]

SetupErrors ==
    {"mount_overlay_fs", "setup_netns", "link add veth", "add_veth_to_netns",
     "clone", "create_cgroup"}

\* C28: when run_container has returned an error from a set-up step after
\* the creation of the container directory, or from create_cgroup, nothing
\* of its container is left: directory, overlay mount, netns, address keys,
\* container_* keys, and its child is not left unwaited.
C28_ErrorLeavesNothing ==
    \A p \in Procs :
        LET id == loc[p].container_id IN
        (Returned(p, "err") /\ loc[p].errAt \in SetupErrors /\ OwnId(p)) =>
            /\ id \notin containerDirs
            /\ overlay[id] = 0
            /\ id \notin netns
            /\ ~HasContainerKey(db, id)
            /\ Id6(id) \notin DOMAIN db.veth_ip_addresses
            /\ loc[p].ip_addr = NoIp \/ IpToString(loc[p].ip_addr) \notin DOMAIN db.used_ip_addresses
            /\ child[p] \in {"none", "reaped"}

\* C29: after a successful run_container the store holds the keys it held
\* before the run and at most downloaded_images/<hash> more: when every run
\* that was started has returned Ok, no key of another prefix is there.
C29_SuccessfulRunRestoresStore ==
    (/\ \E p \in Procs : Returned(p, "ok")
     /\ \A p \in Procs : pc[p] = "idle" \/ Returned(p, "ok"))
        => /\ DOMAIN db.used_ip_addresses = {}
           /\ DOMAIN db.veth_ip_addresses = {}
           /\ DOMAIN db.container_commands = {}
           /\ DOMAIN db.container_image_hashes = {}
           /\ DOMAIN db.container_pids = {}

\* the container of p is live: its veth pair has been made and its netns
\* not yet deleted by its teardown, or its run has returned from a failed
\* create_cgroup and left it running
Live(p) ==
    \/ pc[p] \in {"add_veth_to_netns", "create_ip_address", "insert_ip_address",
                  "run_in_network_namespace", "insert_veth_ip_address", "clone",
                  "record", "create_cgroup", "waitpid", "umount_container_fs",
                  "remove_veth_ip_address", "remove_keys", "delete_netns"}
    \/ pc[p] = "done" /\ loc[p].errAt = "create_cgroup"

\* veth_ip_addresses/ns-veth-<id6> of p's container has been written and
\* its teardown has not removed it yet
HasMapping(p) ==
    \/ pc[p] \in {"clone", "record", "create_cgroup", "waitpid",
                  "umount_container_fs", "remove_veth_ip_address"}
    \/ pc[p] = "done" /\ loc[p].errAt = "create_cgroup"

\* C30: two containers that are live at the same time have different
\* br-veth-<id6>, ns-veth-<id6> and veth_ip_addresses keys, also when their
\* ids differ only after the sixth character; the teardown of a container
\* finds the mapping of its own address and leaves the mapping of every
\* other live container.
C30_LiveContainersHaveOwnVeth ==
    [][\A p, q \in Procs :
          p # q =>
            /\ (Live(p) /\ Live(q)) =>
                  Id6(loc[p].container_id) # Id6(loc[q].container_id)
            /\ (pc[p] = "remove_veth_ip_address" /\ pc'[p] # pc[p]) =>
                  /\ Get(db.veth_ip_addresses, Id6(loc[p].container_id)) =
                        <<IpToString(loc[p].ip_addr)>>
                  /\ pc'[p] = "remove_keys"
                  /\ HasMapping(q) =>
                        Get(db'.veth_ip_addresses, Id6(loc[q].container_id)) =
                            <<IpToString(loc[q].ip_addr)>>]_vars

\* a container is running and the run of a container whose id has the same
\* first six characters, and is another id, was refused its veth pair
C30_Witness ==
    \E p, q \in Procs :
        /\ child[p] = "running"
        /\ loc[q].container_id # loc[p].container_id
        /\ Id6(loc[q].container_id) = Id6(loc[p].container_id)
        /\ Returned(q, "err")
        /\ loc[q].errAt = "link add veth"

\* create_ip_address has returned an address to p
HasAddress(p) ==
    pc[p] \in {"run_in_network_namespace", "insert_veth_ip_address", "clone",
               "record", "create_cgroup", "waitpid"}

\* C31: create_ip_address never returns the address of the bridge, of the
\* network or of the broadcast as the address of a container.
C31_NeverABridgeAddress ==
    \A p \in Procs :
        HasAddress(p) =>
            loc[p].ip_addr \notin {BridgeAddr, NetworkAddr, BroadcastAddr}

\* C32: every directory under the images root has its downloaded_images
\* entry, so fetch_available_images never meets a directory without one.
C32_ImageDirectoriesHaveEntries ==
    /\ \A h \in DOMAIN imgLayers : h \in DOMAIN db.downloaded_images
    /\ \A p \in Procs :
          ~(Returned(p, "panic") /\ loc[p].errAt = "fetch_available_images")

\* every address that create_ip_address can come to try has its key
PoolUsed == \A a \in RandomAddrs : IpInUse(db, a)

\* p is in the loop of create_ip_address
InLoop(p) == pc[p] = "create_ip_address"

\* C33: with a fair thread_rng, a call of create_ip_address returns unless
\* every address of the pool has come to be marked used; and a call that
\* finds every address of the pool marked used goes round its loop again,
\* there being no bound on the retries.
C33_ReturnsIffAnAddressIsFree ==
    /\ \A p \in Procs : InLoop(p) ~> (HasAddress(p) \/ PoolUsed)
    /\ [][\A p \in Procs : (InLoop(p) /\ PoolUsed) => InLoop(p)']_vars

\* a call has returned an address that it had to draw, the first candidate
\* being in use
C33_Witness ==
    \E p \in Procs :
        /\ HasAddress(p)
        /\ loc[p].ip_addr # FirstCandidate
        /\ IpInUse(db, FirstCandidate)
        /\ ~PoolUsed

\* C34: for decimal digits followed by a recognized unit, whose value or
\* whose product with the multiplier does not fit in a u64,
\* parse_memory_limit returns an error, not a wrapped value nor a panic.
C34_OverflowIsAnError ==
    MemCallReturned =>
        LET m == call.arg
            i == FormSplit(m)
            product == TimesPow10(Canon(SubSeq(m, 1, i)),
                                  SIExponent(SubSeq(m, i + 1, Len(m))))
        IN (i > 0 /\ ~FitsU64(product)) => call.ret.kind = "err"

====
